---- MODULE Spec2Model ----
(***************************************************************************)
(* pyhmc/autocorr1.py: the FFT-based autocorrelation function (autocorr)   *)
(* and the windowed integrated autocorrelation time                        *)
(* (integrated_autocorr1), as a state machine whose steps are calls of the *)
(* two public functions.                                                   *)
(*                                                                         *)
(* Numbers.  A float is a pair <<num, den>>: a rational in lowest terms    *)
(* with den > 0, or NaN = <<0,0>>, +inf = <<1,0>>, -inf = <<-1,0>>.  The    *)
(* arithmetic is exact (no rounding): the model settles what the formulas  *)
(* of the code compute, not their floating-point error.                    *)
(*                                                                         *)
(* Complex numbers.  The values handled by np.fft.fft / np.fft.ifft with   *)
(* transform length m lie in the cyclotomic field Q(zeta), zeta =          *)
(* exp(2 pi i / m).  A complex number is a function 0..m-1 -> Int, the     *)
(* coefficients of 1, zeta, ..., zeta^(m-1).  The transforms are computed  *)
(* by their defining sums; nothing about the result is assumed.            *)
(***************************************************************************)
EXTENDS Integers, Sequences, FiniteSets, TLC

\* The longest series of one dimension (an array of shape (n,) or (n, 1)).
MaxN == 4
\* The most rows of an array of several columns.
MaxRows == 3
\* Samples are drawn from 0..MaxVal.
MaxVal == 1

\* The function fn itself, held as the table of its values rather than as
\* the expression that defines it.
Table(fn) == fn @@ <<>>

-----------------------------------------------------------------------------
(* Floats *)

Abs(a) == IF a < 0 THEN -a ELSE a

Sign(a) == IF a < 0 THEN -1 ELSE IF a > 0 THEN 1 ELSE 0

RECURSIVE GCD(_, _)
GCD(a, b) == IF b = 0 THEN a ELSE GCD(b, a % b)

NaN == <<0, 0>>

\* The float num/den of two integers, as IEEE division gives it: x/0 is
\* +-inf for x # 0 and NaN for x = 0.
Rat(num, den) ==
    IF den = 0 THEN <<Sign(num), 0>>
    ELSE LET g == GCD(Abs(num), Abs(den))
         IN  <<(Sign(den) * num) \div g, Abs(den) \div g>>

FromInt(a) == <<a, 1>>

IsNaN(a) == a = NaN

IsInf(a) == a[2] = 0 /\ a[1] # 0

IsFinite(a) == a[2] # 0

FAdd(a, b) ==
    IF IsNaN(a) \/ IsNaN(b) THEN NaN
    ELSE IF IsInf(a) /\ IsInf(b) THEN (IF a = b THEN a ELSE NaN)
    ELSE IF IsInf(a) THEN a
    ELSE IF IsInf(b) THEN b
    ELSE Rat(a[1] * b[2] + b[1] * a[2], a[2] * b[2])

FMul(a, b) ==
    IF IsNaN(a) \/ IsNaN(b) THEN NaN
    ELSE IF IsInf(a) \/ IsInf(b) THEN <<Sign(a[1]) * Sign(b[1]), 0>>
    ELSE Rat(a[1] * b[1], a[2] * b[2])

FDiv(a, b) ==
    IF IsNaN(a) \/ IsNaN(b) THEN NaN
    ELSE IF IsInf(a) /\ IsInf(b) THEN NaN
    ELSE IF IsInf(a) THEN <<IF b[1] < 0 THEN -a[1] ELSE a[1], 0>>
    ELSE IF IsInf(b) THEN <<0, 1>>
    ELSE Rat(a[1] * b[2], a[2] * b[1])

\* a < 0 as a float comparison: false for NaN.
FNeg(a) == a[1] < 0

\* a >= b for finite floats.
FGeq(a, b) == a[1] * b[2] >= b[1] * a[2]

-----------------------------------------------------------------------------
(* Complex numbers of Q(zeta_m) *)

RECURSIVE SumTo(_, _)
\* f[0] + ... + f[k-1]
SumTo(f, k) == IF k = 0 THEN 0 ELSE f[k - 1] + SumTo(f, k - 1)

\* u * v
CMul(u, v, m) ==
    Table([e \in 0..(m - 1) |->
             SumTo([a \in 0..(m - 1) |-> u[a] * v[(e + m - a) % m]], m)])

\* complex conjugate: zeta^e -> zeta^(-e)
CConj(v, m) == Table([e \in 0..(m - 1) |-> v[(m - e) % m]])

\* The cyclotomic polynomial of order m, lowest coefficient first.
Phi(m) ==
    CASE m = 1 -> <<-1, 1>>
      [] m = 2 -> <<1, 1>>
      [] m = 3 -> <<1, 1, 1>>
      [] m = 4 -> <<1, 0, 1>>
      [] m = 5 -> <<1, 1, 1, 1, 1>>
      [] m = 6 -> <<1, -1, 1>>
      [] m = 8 -> <<1, 0, 0, 0, 1>>
      [] m = 9 -> <<1, 0, 0, 1, 0, 0, 1>>
      [] m = 10 -> <<1, -1, 1, -1, 1>>

RECURSIVE Reduce(_, _, _)
\* v modulo Phi(m): the unique representation in 1, zeta, ..., zeta^(phi-1),
\* reached by eliminating the coefficients of degree deg, deg-1, ..., phi.
Reduce(v, m, deg) ==
    LET phi == Len(Phi(m)) - 1
    IN  IF deg < phi THEN v
        ELSE Reduce(Table([e \in 0..(m - 1) |->
                              IF e <= deg /\ e >= deg - phi
                              THEN v[e] - v[deg] * Phi(m)[e - (deg - phi) + 1]
                              ELSE v[e]]), m, deg - 1)

\* Twice the real part of v: v + conj(v) reduced to its rational value (the
\* inverse transform of a conjugate product f * conj(f) is a rational
\* number at every lag).
CReal2(v, m) ==
    Reduce(Table([e \in 0..(m - 1) |-> v[e] + v[(m - e) % m]]), m, m - 1)[0]

-----------------------------------------------------------------------------
(* numpy arrays: [shape |-> <<d1, ..., dk>>, v |-> [index tuples -> value]] *)
(* with 0-based index tuples; a scalar has shape <<>>.                      *)

Max(a, b) == IF a >= b THEN a ELSE b

Min(a, b) == IF a <= b THEN a ELSE b

Indices(shape) ==
    CASE Len(shape) = 0 -> {<<>>}
      [] Len(shape) = 1 -> {<<i>> : i \in 0..(shape[1] - 1)}
      [] Len(shape) = 2 ->
            {<<i, j>> : i \in 0..(shape[1] - 1), j \in 0..(shape[2] - 1)}

Array(shape, values) == [shape |-> shape, v |-> Table(values)]

\* axis is the 0-based numpy axis.
Dim(shape, axis) == shape[axis + 1]

\* idx with its entry on axis replaced by t
Put(idx, axis, t) == [idx EXCEPT ![axis + 1] = t]

\* the tuple without its entry on axis
Drop(idx, axis) ==
    [p \in 1..(Len(idx) - 1) |-> IF p <= axis THEN idx[p] ELSE idx[p + 1]]

\* the tuple with t inserted on axis
Insert(idx, axis, t) ==
    [p \in 1..(Len(idx) + 1) |->
        IF p <= axis THEN idx[p] ELSE IF p = axis + 1 THEN t ELSE idx[p - 1]]

\* the tuple with its entry on axis set to t
SetDim(shape, axis, t) == [shape EXCEPT ![axis + 1] = t]

(* Broadcasting of two shapes, aligned on their trailing dimensions. *)
BDim(shape, nd, p) ==
    IF p - (nd - Len(shape)) >= 1 THEN shape[p - (nd - Len(shape))] ELSE 1

BCompatible(sa, sb) ==
    LET nd == Max(Len(sa), Len(sb))
    IN  \A p \in 1..nd :
            \/ BDim(sa, nd, p) = BDim(sb, nd, p)
            \/ BDim(sa, nd, p) = 1
            \/ BDim(sb, nd, p) = 1

BShape(sa, sb) ==
    LET nd == Max(Len(sa), Len(sb))
    IN  [p \in 1..nd |->
            IF BDim(sa, nd, p) = 1 THEN BDim(sb, nd, p) ELSE BDim(sa, nd, p)]

\* the index of the operand of shape `shape` that the result index idx reads
BIndex(shape, idx) ==
    LET nd == Len(idx)
    IN  [p \in 1..Len(shape) |->
            IF shape[p] = 1 THEN 0 ELSE idx[p + (nd - Len(shape))]]

RECURSIVE FSumTo(_, _)
\* f[0] + ... + f[k-1] in float addition
FSumTo(f, k) == IF k = 0 THEN <<0, 1>> ELSE FAdd(FSumTo(f, k - 1), f[k - 1])

\* np.mean(x, axis): the sum along axis divided by the length; the mean of
\* an empty lane is 0/0 = NaN.
mean(x, axis) ==
    LET n == Dim(x.shape, axis)
    IN  Array(Drop(x.shape, axis),
          [idx \in Indices(Drop(x.shape, axis)) |->
              FDiv(FSumTo([t \in 0..(n - 1) |-> x.v[Insert(idx, axis, t)]], n),
                     FromInt(n))])

FSub(a, b) == FAdd(a, FMul(FromInt(-1), b))

\* a[..., 0:n, ...] with the slice on axis
SliceTo(a, axis, n) ==
    Array(SetDim(a.shape, axis, Min(n, Dim(a.shape, axis))),
          [idx \in Indices(SetDim(a.shape, axis, Min(n, Dim(a.shape, axis)))) |->
              a.v[idx]])

\* a[..., 0, ...] with the index on axis (the axis must not be empty)
TakeFirst(a, axis) ==
    Array(Drop(a.shape, axis),
          [idx \in Indices(Drop(a.shape, axis)) |->
              a.v[Insert(idx, axis, 0)]])

-----------------------------------------------------------------------------
(* Complex arrays: [shape, den, v], the entry at idx being v[idx] / den     *)
(* with v[idx] a complex number with integer coefficients.                  *)

CArray(shape, den, values) == [shape |-> shape, den |-> den, v |-> Table(values)]

LCM(a, b) == (a * b) \div GCD(a, b)

RECURSIVE LCMOver(_)
LCMOver(S) ==
    IF S = {} THEN 1
    ELSE LET a == CHOOSE a \in S : TRUE IN LCM(a, LCMOver(S \ {a}))

\* a common denominator of the (finite) entries of a float array
CommonDen(x) == LCMOver({x.v[idx][2] : idx \in Indices(x.shape)})

\* np.fft.fft(x, n=m, axis=axis): every lane along axis is cut or
\* zero-padded to length m and transformed,
\*     F[j] = sum over i of x[i] * zeta^(-i*j).
fft(x, m, axis) ==
    LET len == Min(Dim(x.shape, axis), m)
        den == CommonDen(x)
        num(idx) == x.v[idx][1] * (den \div x.v[idx][2])
    IN  CArray(SetDim(x.shape, axis, m), den,
          [idx \in Indices(SetDim(x.shape, axis, m)) |->
              Table([e \in 0..(m - 1) |->
                    SumTo([i \in 0..(len - 1) |->
                             IF (m - ((i * idx[axis + 1]) % m)) % m = e
                             THEN num(Put(idx, axis, i)) ELSE 0], len)])])

\* f * np.conjugate(f)
ConjugateProduct(f, axis) ==
    LET m == Dim(f.shape, axis)
    IN  CArray(f.shape, f.den * f.den,
          [idx \in Indices(f.shape) |->
              CMul(f.v[idx], CConj(f.v[idx], m), m)])

\* np.fft.ifft(g, axis=axis):
\*     r[k] = (1/m) * sum over j of g[j] * zeta^(j*k).
ifft(g, axis) ==
    LET m == Dim(g.shape, axis)
    IN  CArray(g.shape, g.den * m,
          [idx \in Indices(g.shape) |->
              Table([e \in 0..(m - 1) |->
                    SumTo([j \in 0..(m - 1) |->
                             g.v[Put(idx, axis, j)][(e + m * m - j * idx[axis + 1]) % m]],
                          m)])])

\* c[..., 0:n, ...] of a complex array
CSliceTo(c, axis, n) ==
    CArray(SetDim(c.shape, axis, Min(n, Dim(c.shape, axis))), c.den,
          [idx \in Indices(SetDim(c.shape, axis, Min(n, Dim(c.shape, axis)))) |->
              c.v[idx]])

\* c.real, as floats
Real(c, m) == Array(c.shape,
          [idx \in Indices(c.shape) |->
              Rat(CReal2(c.v[idx], m), 2 * c.den)])

RECURSIVE StripFactor(_, _)
StripFactor(k, p) == IF k % p = 0 THEN StripFactor(k \div p, p) ELSE k

\* scipy's _next_regular: the smallest number >= target of the form
\* 2^a * 3^b * 5^c.
next_regular(target) ==
    CHOOSE k \in target..(2 * target) :
        /\ StripFactor(StripFactor(StripFactor(k, 2), 3), 5) = 1
        /\ \A l \in target..(k - 1) :
              StripFactor(StripFactor(StripFactor(l, 2), 3), 5) # 1

-----------------------------------------------------------------------------
(* autocorr *)

\* What a call yields: the exception it raises ("none" when it returns)
\* and the value it returns (None when it raises).
None == [shape |-> <<>>, v |-> <<>>]

Raise(e) == [err |-> e, val |-> None]

Return(a) == [err |-> "none", val |-> a]

\* Centre with the subtraction of the mean left out.
CentreNot(x, mu) == x

\* x - np.mean(x, axis=axis), mu being the mean: numpy broadcasts mu
\* against x on the trailing dimensions.
Centre(x, mu) ==
    Array(BShape(x.shape, mu.shape),
          [idx \in Indices(BShape(x.shape, mu.shape)) |->
              FSub(x.v[BIndex(x.shape, idx)], mu.v[BIndex(mu.shape, idx)])])

\* the transform length, _next_regular(n+1)
FftLength(n) == next_regular(n + 1)

\* np.fft.ifft(f * np.conjugate(f), axis=axis)[m].real with m[axis] = slice(0, n)
PowerToAcf(f, axis, n) ==
    Real(CSliceTo(ifft(ConjugateProduct(f, axis), axis), axis, n),
         Dim(f.shape, axis))

\* IndexFirst with m[axis] = slice(0, 1) for m[axis] = 0: a slice of an
\* empty axis is empty and raises nothing.
IndexFirstSlice(acf, axis) == Return(SliceTo(acf, axis, 1))

\* acf[m] with m[axis] = 0: index 0 of an empty axis is out of bounds.
IndexFirst(acf, axis) ==
    IF Dim(acf.shape, axis) = 0 THEN Raise("IndexError")
    ELSE Return(TakeFirst(acf, axis))

\* Normalise with the division left out.
NormaliseNot(acf, a0) == acf

\* acf / acf[m] with m[axis] = 0, a0 being acf[m]
Normalise(acf, a0) ==
    Array(BShape(acf.shape, a0.shape),
          [idx \in Indices(BShape(acf.shape, a0.shape)) |->
              FDiv(acf.v[BIndex(acf.shape, idx)], a0.v[BIndex(a0.shape, idx)])])

autocorr(x, axis) ==
    IF axis >= Len(x.shape) THEN Raise("IndexError")
    ELSE
    LET n == Dim(x.shape, axis)
        mu == mean(x, axis)
    IN  IF ~BCompatible(x.shape, mu.shape) THEN Raise("ValueError")
        ELSE
        LET xc == Centre(x, mu)
            f == fft(xc, FftLength(n), axis)
            acf == PowerToAcf(f, axis, n)
            a0 == IndexFirst(acf, axis)
        IN  IF a0.err # "none" THEN Raise(a0.err)
            ELSE IF ~BCompatible(acf.shape, a0.val.shape) THEN Raise("ValueError")
            ELSE Return(Normalise(acf, a0.val))

-----------------------------------------------------------------------------
(* integrated_autocorr1 *)

\* The window argument: None, a Python int, a str or a list.
WindowNone == [kind |-> "None", val |-> 0]

WindowInt(w) == [kind |-> "int", val |-> w]

WindowStr == [kind |-> "str", val |-> 0]

WindowList == [kind |-> "list", val |-> 0]

\* np.isscalar(window): true of Python numbers and of str, false of
\* None, lists and arrays.
isscalar(window) == window.kind \in {"int", "str"}

\* x.reshape(-1, 1) of a one-dimensional x
Reshape(x) ==
    IF Len(x.shape) = 1
    THEN Array(<<x.shape[1], 1>>,
          [idx \in Indices(<<x.shape[1], 1>>) |->
              x.v[<<idx[1]>>]])
    ELSE x

\* NegFlags with the comparison turned round, f > 0.
PosFlags(f) ==
    Array(f.shape,
          [idx \in Indices(f.shape) |->
              IF f.v[idx][1] > 0 THEN 1 ELSE 0])

\* (f < 0).astype(np.uint8)
NegFlags(f) == Array(f.shape,
          [idx \in Indices(f.shape) |->
              IF FNeg(f.v[idx]) THEN 1 ELSE 0])

\* find_first of pyhmc._utils: for every column of a 0/1 array of shape
\* (n, d) the index of its first 1, or n when it has none.
find_first(flags) ==
    LET n == flags.shape[1]
    IN  [j \in 0..(flags.shape[2] - 1) |->
            IF \E k \in 0..(n - 1) : flags.v[<<k, j>>] = 1
            THEN CHOOSE k \in 0..(n - 1) :
                    /\ flags.v[<<k, j>>] = 1
                    /\ \A l \in 0..(k - 1) : flags.v[<<l, j>>] # 1
            ELSE n]

\* ScalarWindow with np.zeros for np.ones.
ZeroWindow(w, d) == Table([j \in 0..(d - 1) |-> FromInt(0)])

\* window * np.ones(d): d floats equal to the int window
ScalarWindow(w, d) == Table([j \in 0..(d - 1) |-> FromInt(w)])

\* A float used as a slice index: numpy releases before 1.12 (the ones the
\* module's scipy import belongs to) truncate it to an int.
FloatIndex(a) == Sign(a[1]) * (Abs(a[1]) \div a[2])

\* The stop of the slice f[:w] of an axis of length n: a negative stop
\* counts from the end, and the slice is clipped to the axis.
SliceStop(w, n) == IF w < 0 THEN Max(n + w, 0) ELSE Min(w, n)

\* Tau with the slice f[1:w, j], the lag-0 term left out.
TauSkipLagZero(f, w, j) ==
    LET stop == SliceStop(w, f.shape[1])
    IN  FAdd(FromInt(1),
             FMul(FromInt(2),
                  FSumTo([k \in 0..(stop - 2) |-> f.v[<<k + 1, j>>]],
                         Max(stop - 1, 0))))

\* 1 + 2*np.sum(f[:w, j])
Tau(f, w, j) ==
    LET stop == SliceStop(w, f.shape[1])
    IN  FAdd(FromInt(1),
             FMul(FromInt(2), FSumTo([k \in 0..(stop - 1) |-> f.v[<<k, j>>]], stop)))

\* The call's outcome, with the locals f and window (as the int each
\* window[j] is when it indexes f) as they stand when the function returns
\* or raises.
Outcome(e, value, f, win) == [err |-> e, val |-> value, f |-> f, win |-> win]

\* The window's branch: window[j] for every dimension j, or the exception
\* raised.  A str is a scalar to np.isscalar, and str * ndarray raises
\* TypeError.
ResolveWindow(acf, window, d) ==
    IF window.kind = "None"
    THEN [err |-> "none", win |-> find_first(NegFlags(acf))]
    ELSE IF isscalar(window)
    THEN IF window.kind = "str"
         THEN [err |-> "TypeError", win |-> <<>>]
         ELSE LET wf == ScalarWindow(window.val, d)
              IN  [err |-> "none",
                   win |-> Table([j \in 0..(d - 1) |-> FloatIndex(wf[j])])]
    ELSE [err |-> "NotImplementedError", win |-> <<>>]

\* integrated_autocorr1 from the call of autocorr on: acf is what
\* autocorr(x, axis=0) yields, d is x.shape[1].
WindowedSum(acf, window, d) ==
    IF acf.err # "none" THEN Outcome(acf.err, None, None, <<>>)
    ELSE
    LET r == ResolveWindow(acf.val, window, d)
    IN  IF r.err # "none" THEN Outcome(r.err, None, acf.val, <<>>)
        ELSE Outcome("none",
                     Array(<<d>>,
          [idx \in Indices(<<d>>) |->
              Tau(acf.val, r.win[idx[1]], idx[1])]),
                     acf.val, r.win)

integrated_autocorr1(x, window) ==
    LET x2 == Reshape(x)
    IN  WindowedSum(autocorr(x2, 0), window, x2.shape[2])

-----------------------------------------------------------------------------
(* The calls *)

VARIABLES
    pc,      \* "idle", or "done" after a call
    fn,      \* the function called: "autocorr" or "integrated_autocorr1"
    x,       \* the series passed
    axis,    \* the axis passed to autocorr
    window,  \* the window passed to integrated_autocorr1
    err,     \* the exception raised, "none" when the call returned
    res,     \* the value returned, None when the call raised
    f,       \* integrated_autocorr1's local f, the ACF (None if not reached)
    win      \* integrated_autocorr1's local window, per dimension

vars == <<pc, fn, x, axis, window, err, res, f, win>>

Samples == 0..MaxVal

\* The widths of the arrays of several columns.
Columns == {2}

Series1(n) == {[shape |-> <<n>>, v |-> a] : a \in [Indices(<<n>>) -> Samples]}

Series2(r, c) ==
    {[shape |-> <<r, c>>, v |-> a] : a \in [Indices(<<r, c>>) -> Samples]}

\* The arrays of ints a caller passes, as the floats numpy makes of them.
AsFloat(a) == Array(a.shape,
          [idx \in Indices(a.shape) |->
              FromInt(a.v[idx])])

Inputs ==
    UNION ({Series1(n) : n \in 0..MaxN}
           \cup {Series2(n, 1) : n \in 0..MaxN}
           \cup {Series2(r, c) : r \in 0..MaxRows, c \in Columns})

Windows ==
    {WindowNone, WindowStr, WindowList} \cup {WindowInt(w) : w \in -1..(MaxN + 1)}

\* The caller holds a series.
Init ==
    /\ pc = "idle"
    /\ fn = "none"
    /\ x \in Inputs
    /\ axis = 0
    /\ window = WindowNone
    /\ err = "none"
    /\ res = None
    /\ f = None
    /\ win = <<>>

CallAutocorr ==
    /\ pc = "idle"
    /\ \E ax \in {0, 1} :
          LET out == autocorr(AsFloat(x), ax)
          IN  /\ axis' = ax
              /\ err' = out.err
              /\ res' = out.val
    /\ pc' = "done"
    /\ fn' = "autocorr"
    /\ UNCHANGED <<x, window, f, win>>

\* integrated_autocorr1(AsFloat(x), w) for a window w; the ACF does not
\* depend on w and is computed once for all of them.
CallIntegratedAutocorr1 ==
    /\ pc = "idle"
    /\ \E x2 \in {Reshape(AsFloat(x))} :
       \E acf \in {autocorr(x2, 0)} :
       \E w \in Windows :
              LET out == WindowedSum(acf, w, x2.shape[2])
              IN  /\ window' = w
                  /\ err' = out.err
                  /\ res' = out.val
                  /\ f' = out.f
                  /\ win' = out.win
    /\ pc' = "done"
    /\ fn' = "integrated_autocorr1"
    /\ UNCHANGED <<x, axis>>

\* The caller takes the result; nothing of the call is kept.
Finish ==
    /\ pc = "done"
    /\ pc' = "idle"
    /\ fn' = "none"
    /\ axis' = 0
    /\ window' = WindowNone
    /\ err' = "none"
    /\ res' = None
    /\ f' = None
    /\ win' = <<>>
    /\ UNCHANGED x

Next == CallAutocorr \/ CallIntegratedAutocorr1 \/ Finish

Spec == Init /\ [][Next]_vars

-----------------------------------------------------------------------------
(* What the formulas below read off a finished call *)

AutocorrDone == pc = "done" /\ fn = "autocorr"

IntegratedDone == pc = "done" /\ fn = "integrated_autocorr1"

\* integrated_autocorr1's series: n samples of d dimensions, time on axis 0
NSamples == x.shape[1]

NDims == IF Len(x.shape) = 1 THEN 1 ELSE x.shape[2]

\* the sample of x at time t of the lane (fixed other indices) of idx,
\* time being axis 0
Sample(idx, t) == x.v[Put(idx, 0, t)]

LaneConstant(idx) == \A t \in 0..(NSamples - 1) : Sample(idx, t) = Sample(idx, 0)

\* n * (x[t] - mean), an integer
CentredTimesN(idx, t) ==
    NSamples * Sample(idx, t)
        - SumTo([i \in 0..(NSamples - 1) |-> Sample(idx, i)], NSamples)

\* The direct, non-circular correlation at lag k of the lane of idx:
\* the sum over i in 0..n-1-k of y[i] * y[i+k] (times n^2).
DirectCorr(idx, k) ==
    SumTo([i \in 0..(NSamples - 1 - k) |->
             CentredTimesN(idx, i) * CentredTimesN(idx, i + k)], NSamples - k)

One == <<1, 1>>

\* 1 + 2 * (a[from] + ... + a[to - 1]) of column j of the ACF f
OnePlusTwiceSum(j, from, to) ==
    FAdd(One,
         FMul(FromInt(2),
              FSumTo([k \in 0..(to - from - 1) |-> f.v[<<from + k, j>>]],
                     Max(to - from, 0))))

-----------------------------------------------------------------------------
(* C1 *)

\* C1: autocorr(x) with time on axis 0 and n >= 1 returns, at every lag k of
\* every dimension, the direct (linear) correlation of the centred series
\* divided by its lag-0 value: no wraparound term enters a returned lag.
C1_DirectCorrelation ==
    (AutocorrDone /\ axis = 0 /\ NSamples >= 1) =>
        /\ err = "none"
        /\ \A idx \in Indices(x.shape) :
              res.v[idx] = Rat(DirectCorr(idx, idx[1]), DirectCorr(idx, 0))

(* C2 *)

\* C2 as stated: for any series with n >= 1 the ACF returned is exactly 1.0
\* at lag 0 of every dimension.
C2_LagZeroIsOne ==
    (AutocorrDone /\ axis = 0 /\ NSamples >= 1) =>
        /\ err = "none"
        /\ \A idx \in Indices(x.shape) : idx[1] = 0 => res.v[idx] = One

\* the centred series x - mean(x) of the lane of idx is all zero
CentredZero(idx) == \A t \in 0..(NSamples - 1) : CentredTimesN(idx, t) = 0

\* C2 amended: with time on axis 0 and n >= 1, the ACF returned is exactly
\* 1.0 at lag 0 of every dimension whose centred series x - mean(x) is not
\* all zero, and NaN (0/0) at every lag of a dimension whose centred series
\* is all zero (a constant series, every series of length 1).
C2_LagZeroIsOneUnlessConstant ==
    (AutocorrDone /\ axis = 0 /\ NSamples >= 1) =>
        /\ err = "none"
        /\ res.shape = x.shape
        /\ \A idx \in Indices(x.shape) :
              IF CentredZero(idx) THEN res.v[idx] = NaN
              ELSE idx[1] = 0 => res.v[idx] = One

C2_Witness ==
    /\ AutocorrDone /\ axis = 0 /\ err = "none"
    /\ Len(x.shape) = 2 /\ x.shape[2] = 2
    /\ ~LaneConstant(<<0, 0>>) /\ LaneConstant(<<0, 1>>)

(* C3 *)

\* C3: the value returned for dimension j is 1 + 2 * sum(ACF[1:window[j], j]),
\* the lag-0 term left out, for a supplied window (0 <= w <= n) and for an
\* auto-derived one (stated for a series whose ACF is finite).
C3_TauExcludesLagZero ==
    (IntegratedDone /\ err = "none"
        /\ (window.kind = "int" => window.val \in 0..NSamples)
        /\ \A idx \in Indices(f.shape) : IsFinite(f.v[idx])) =>
        \A j \in 0..(NDims - 1) :
            res.v[<<j>>] = OnePlusTwiceSum(j, 1, SliceStop(win[j], NSamples))

(* C4 *)

\* C4: with window=None and n >= 1 the call returns, and the window of
\* dimension j is the smallest lag k >= 1 with f[k, j] < 0, or n when no lag
\* of dimension j is negative, whatever the other dimensions are; the value
\* returned sums the lags below that window.
C4_AutoWindowFirstNegative ==
    (IntegratedDone /\ window = WindowNone /\ NSamples >= 1) =>
        /\ err = "none"
        /\ \A j \in 0..(NDims - 1) :
              /\ win[j] \in 1..NSamples
              /\ win[j] < NSamples => FNeg(f.v[<<win[j], j>>])
              /\ \A k \in 1..(win[j] - 1) : ~FNeg(f.v[<<k, j>>])
              /\ res.v[<<j>>] = OnePlusTwiceSum(j, 0, win[j])

C4_Witness ==
    /\ IntegratedDone /\ window = WindowNone /\ err = "none"
    /\ NSamples = 4
    /\ win[0] = 2 /\ FNeg(f.v[<<2, 0>>])

(* C5 *)

C6_UnsupportedWindowRaises ==
    (IntegratedDone /\ NSamples >= 1 /\ window.kind \in {"list", "str"}) =>
        /\ err = "NotImplementedError"
        /\ res = None

(* C7 *)

\* C7: a call on a series whose time axis has length 0 raises and returns
\* nothing: integrated_autocorr1, and autocorr on either axis.
C7_EmptySeriesRaises ==
    /\ (IntegratedDone /\ NSamples = 0) => (err # "none" /\ res = None)
    /\ (AutocorrDone /\ axis < Len(x.shape) /\ Dim(x.shape, axis) = 0) =>
            (err # "none" /\ res = None)

C7_Witness ==
    /\ IntegratedDone /\ NSamples = 0 /\ NDims = 2
    /\ window = WindowNone /\ err = "IndexError"

(* C8 *)

\* the transpose of a two-dimensional array
Transpose(a) == Array(<<a.shape[2], a.shape[1]>>,
          [idx \in Indices(<<a.shape[2], a.shape[1]>>) |->
              a.v[<<idx[2], idx[1]>>]])

\* C8: autocorr(x, axis=1) of an x of shape (d, n), n >= 2, is the transpose of
\* autocorr(transpose(x), axis=0): every row is centred by its own mean and
\* divided by its own lag-0 value.
C8_AxisOneIsTransposedAxisZero ==
    (AutocorrDone /\ axis = 1 /\ Len(x.shape) = 2
        /\ x.shape[1] >= 1 /\ x.shape[2] >= 2) =>
        LET t == autocorr(AsFloat(Transpose(x)), 0)
        IN  /\ err = "none"
            /\ res = Transpose(t.val)

(* C9 *)

\* The constants added to a series: -1 and 5/2.
Shifts == {<<-1, 1>>, <<5, 2>>}

Shifted(a, c) == Array(a.shape,
          [idx \in Indices(a.shape) |->
              FAdd(FromInt(a.v[idx]), c)])

\* C9: autocorr(x + c) is autocorr(x) at every lag and dimension (and raises
\* what autocorr(x) raises), for every constant c.
C9_ShiftInvariant ==
    AutocorrDone =>
        \A c \in Shifts :
            autocorr(Shifted(x, c), axis) = [err |-> err, val |-> res]

C9_Witness ==
    /\ AutocorrDone /\ axis = 0 /\ err = "none"
    /\ x.shape = <<3, 2>>
    /\ ~LaneConstant(<<0, 0>>) /\ ~LaneConstant(<<0, 1>>)
    /\ res.v[<<1, 0>>] # res.v[<<1, 1>>]

(* C10 *)

\* C10: with window=None on a series whose ACF is finite with lag-0 value 1,
\* every window[j] is at least 1, every summed term f[0:window[j], j] is
\* non-negative, and every tau_int[j] returned is at least 3.
C10_AutoTauAtLeastThree ==
    (IntegratedDone /\ window = WindowNone /\ err = "none"
        /\ \A idx \in Indices(f.shape) : IsFinite(f.v[idx])
        /\ \A j \in 0..(NDims - 1) : f.v[<<0, j>>] = One) =>
        \A j \in 0..(NDims - 1) :
            /\ win[j] >= 1
            /\ \A k \in 0..(win[j] - 1) : FGeq(f.v[<<k, j>>], FromInt(0))
            /\ IsFinite(res.v[<<j>>])
            /\ FGeq(res.v[<<j>>], FromInt(3))

C10_Witness ==
    /\ IntegratedDone /\ window = WindowNone /\ err = "none"
    /\ NSamples = 4
    /\ \A idx \in Indices(f.shape) : IsFinite(f.v[idx])
    /\ win[0] = 2
    /\ ~FGeq(FromInt(3), res.v[<<0>>])

====
